---------------------------- MODULE Spec2Model ----------------------------
(***************************************************************************)
(* Model of the match enrichment engine of main.py: the pure helpers       *)
(* (_is_finished, _winner_team_id, _opponent_id, _compute_form,            *)
(* _compute_h2h, _map_winrate_from_team_stats) and the match_enriched      *)
(* handler with its concurrent upstream fetches.                           *)
(*                                                                         *)
(* Python values.  An optional value (a dict lookup with .get, a value     *)
(* that may be None) is the empty set for None and a singleton otherwise.  *)
(* A score is [isInt, v]: isInt says whether isinstance(score, int).       *)
(***************************************************************************)
EXTENDS Integers, Sequences, FiniteSets, TLC

VARIABLES
    pc,          \* position of the running call
    md,          \* match_enriched: the fetched match record (None before)
    tasks,       \* match_enriched: the four awaitables handed to asyncio.gather
    outer,       \* match_enriched: the future asyncio.gather returns
    returned,    \* match_enriched: the value the handler returned (None if none)
    raised,      \* match_enriched: the HTTPException the handler raised (None if none)
    statsCalls,  \* match_enriched: the teams cs2.get_team_stats was called for
    args,        \* pure helpers: the arguments of the call
    ret          \* pure helpers: the value the call returned (None before)

vars == <<pc, md, tasks, outer, returned, raised, statsCalls, args, ret>>

-----------------------------------------------------------------------------
(* Bounds of the model *)

MaxLen == 4      \* longest match history
MaxTake == 4     \* largest `take` of _compute_form
MaxLimit == 2    \* largest `limit` of _compute_h2h
MaxKeys == 2     \* most alias keys set in one team-stats blob

-----------------------------------------------------------------------------
(* Python values *)

None == {}
Some(v) == {v}
Val(o) == CHOOSE v \in o : TRUE

Min(a, b) == IF a <= b THEN a ELSE b
Max(a, b) == IF a >= b THEN a ELSE b

\* truth value of an optional int: None and 0 are falsy
TruthyInt(o) == o # None /\ o # Some(0)
\* truth value of an optional str: None and "" are falsy
TruthyStr(o) == o # None /\ o # Some("")
\* `a or b` on optional ints, on optional strs
OrInt(a, b) == IF TruthyInt(a) THEN a ELSE b
OrStr(a, b) == IF TruthyStr(a) THEN a ELSE b

\* (m.get("teamN") or {}).get(key): a missing or null team summary has no fields
TeamGet(team, key) == IF team = None THEN None ELSE Val(team)[key]

\* str.lower() on the status strings of the model
lower(s) ==
    CASE s = "Finished" -> "finished"
      [] s = "FINISHED" -> "finished"
      [] s = "Live"     -> "live"
      [] OTHER          -> s

Score(n) == Some([isInt |-> TRUE, v |-> n])
\* a score that is not an int, such as the string "2"
StrScore(n) == Some([isInt |-> FALSE, v |-> n])
isinstance_int(s) == s # None /\ Val(s).isInt

TeamSummary(id, slug) == Some([id |-> id, slug |-> slug])

Match(id, st, pst, t1f, t1n, t2f, t2n, s1, s2) ==
    [id |-> id, status |-> st, parsed_status |-> pst,
     team1_id |-> t1f, team1 |-> t1n, team2_id |-> t2f, team2 |-> t2n,
     team1_score |-> s1, team2_score |-> s2]

-----------------------------------------------------------------------------
(* _is_finished, _winner_team_id, _opponent_id, _safe_list *)

_is_finished(m) ==
    LET st  == lower(Val(OrStr(m.status, Some(""))))
        pst == lower(Val(OrStr(m.parsed_status, Some(""))))
    IN  st = "finished" \/ pst = "finished"

_winner_team_id(m) ==
    LET t1 == OrInt(m.team1_id, TeamGet(m.team1, "id"))
        t2 == OrInt(m.team2_id, TeamGet(m.team2, "id"))
        s1 == m.team1_score
        s2 == m.team2_score
    IN  IF t1 = None \/ t2 = None THEN None
        ELSE IF ~isinstance_int(s1) \/ ~isinstance_int(s2) THEN None
        ELSE IF Val(s1).v > Val(s2).v THEN t1
        ELSE IF Val(s2).v > Val(s1).v THEN t2
        ELSE None

_opponent_id(m, team_id) ==
    LET t1 == OrInt(m.team1_id, TeamGet(m.team1, "id"))
        t2 == OrInt(m.team2_id, TeamGet(m.team2, "id"))
    IN  IF t1 = Some(team_id) /\ TruthyInt(t2) THEN t2
        ELSE IF t2 = Some(team_id) /\ TruthyInt(t1) THEN t1
        ELSE None

\* x if isinstance(x, list) else []
_safe_list(x) == IF x.kind = "list" THEN x.items ELSE <<>>

-----------------------------------------------------------------------------
(* _compute_form *)

\* s[:n], Python's slice, also for a negative n
SliceTo(s, n) ==
    IF n >= 0 THEN SubSeq(s, 1, Min(n, Len(s)))
    ELSE SubSeq(s, 1, Max(0, Len(s) + n))

\* truncating before filtering
FinishedTake_truncate_first(matches, take) ==
    SelectSeq(SliceTo(matches, take), _is_finished)

\* finished = [m for m in matches if _is_finished(m)]; finished = finished[:take]
FinishedTake(matches, take) ==
    SliceTo(SelectSeq(matches, _is_finished), take)

FormEntry(m, is_win) ==
    [id |-> m.id, win |-> is_win,
     team1_score |-> m.team1_score, team2_score |-> m.team2_score]

\* the loop over `finished`: acc is [wins, losses, recent]
RECURSIVE FormLoop(_, _, _, _)
FormLoop(team_id, finished, i, acc) ==
    IF i > Len(finished) THEN acc
    ELSE LET m == finished[i]
             w == _winner_team_id(m)
         IN  IF w = None THEN FormLoop(team_id, finished, i + 1, acc)
             ELSE LET is_win == (w = Some(team_id))
                  IN  FormLoop(team_id, finished, i + 1,
                        [wins   |-> IF is_win THEN acc.wins + 1 ELSE acc.wins,
                         losses |-> IF is_win THEN acc.losses ELSE acc.losses + 1,
                         recent |-> Append(acc.recent, FormEntry(m, is_win))])

\* a walk that flips sign instead of stopping at the first break
RECURSIVE StreakLoop_flip(_, _, _)
StreakLoop_flip(recent, i, streak) ==
    IF i > Len(recent) THEN streak
    ELSE IF recent[i].win
         THEN StreakLoop_flip(recent, i + 1, IF streak >= 0 THEN streak + 1 ELSE 1)
         ELSE StreakLoop_flip(recent, i + 1, IF streak <= 0 THEN streak - 1 ELSE -1)

\* the streak loop over `recent`, from the most recent entry
RECURSIVE StreakLoop(_, _, _)
StreakLoop(recent, i, streak) ==
    IF i > Len(recent) THEN streak
    ELSE IF recent[i].win
         THEN (IF streak >= 0 THEN StreakLoop(recent, i + 1, streak + 1) ELSE streak)
         ELSE (IF streak <= 0 THEN StreakLoop(recent, i + 1, streak - 1) ELSE streak)

Streak_flip(recent) == StreakLoop_flip(recent, 1, 0)

Streak(recent) == StreakLoop(recent, 1, 0)

_compute_form(team_id, matches, take) ==
    LET finished == FinishedTake(matches, take)
        acc == FormLoop(team_id, finished, 1,
                        [wins |-> 0, losses |-> 0, recent |-> <<>>])
    IN  [sample_size |-> Len(acc.recent),
         wins        |-> acc.wins,
         losses      |-> acc.losses,
         streak      |-> Streak(acc.recent),
         recent      |-> acc.recent]

-----------------------------------------------------------------------------
(* _compute_h2h *)

\* the collecting loop: returns the collected matches and how many history
\* entries the loop inspected before it ended
RECURSIVE H2HScan(_, _, _, _, _, _)
H2HScan(team1_id, team2_id, matches_team1, limit, i, h2h) ==
    IF i > Len(matches_team1) THEN [h2h |-> h2h, scanned |-> i - 1]
    ELSE LET m    == matches_team1[i]
             opp  == _opponent_id(m, team1_id)
             h2h2 == IF opp = Some(team2_id) THEN Append(h2h, m) ELSE h2h
         IN  IF Len(h2h2) >= limit THEN [h2h |-> h2h2, scanned |-> i]
             ELSE H2HScan(team1_id, team2_id, matches_team1, limit, i + 1, h2h2)

H2HEntry(m) ==
    [id |-> m.id, team1_score |-> m.team1_score, team2_score |-> m.team2_score]

\* the tallying loop over the collected matches: acc is [t1w, t2w, out]
RECURSIVE H2HTally(_, _, _, _, _)
H2HTally(team1_id, team2_id, h2h, i, acc) ==
    IF i > Len(h2h) THEN acc
    ELSE LET m == h2h[i]
             w == _winner_team_id(m)
         IN  H2HTally(team1_id, team2_id, h2h, i + 1,
               [t1w |-> IF w = Some(team1_id) THEN acc.t1w + 1 ELSE acc.t1w,
                t2w |-> IF w # Some(team1_id) /\ w = Some(team2_id)
                        THEN acc.t2w + 1 ELSE acc.t2w,
                out |-> Append(acc.out, H2HEntry(m))])

_compute_h2h(team1_id, team2_id, matches_team1, limit) ==
    LET h2h == H2HScan(team1_id, team2_id, matches_team1, limit, 1, <<>>).h2h
        acc == H2HTally(team1_id, team2_id, h2h, 1,
                        [t1w |-> 0, t2w |-> 0, out |-> <<>>])
    IN  [sample_size |-> Len(acc.out),
         team1_wins  |-> acc.t1w,
         team2_wins  |-> acc.t2w,
         matches     |-> acc.out]

-----------------------------------------------------------------------------
(* _map_winrate_from_team_stats *)

\* A dict of the stats payload is a function from the alias keys to "absent"
\* (key not in the dict), "empty" (a falsy value: None, {}, [], 0) or the
\* non-empty value stored there.  A team-stats value is [kind, top, general,
\* advanced]: kind "dict" when isinstance(team_stats, dict); top holds the alias
\* keys of the blob itself; general and advanced are what
\* team_stats.get("general_stats") and .get("advanced_stats") give:
\* kind "none" (missing or falsy), "other" (truthy but not a dict) or "dict".
Aliases == <<"maps", "map_stats", "map_pool", "mapWinrate", "map_winrate", "map_stats_data">>

AliasSet == {Aliases[k] : k \in 1..Len(Aliases)}

NoKeys == [a \in AliasSet |-> "absent"]

\* x or {}
OrDict(sub) == IF sub.kind = "none" THEN [kind |-> "dict", keys |-> NoKeys] ELSE sub

\* for key in (...): if key in container and container.get(key): return {key: ...}
RECURSIVE ScanKeys(_, _)
ScanKeys(container, k) ==
    IF k > Len(Aliases) THEN None
    ELSE LET key == Aliases[k]
         IN  IF container.keys[key] # "absent" /\ container.keys[key] # "empty"
             THEN Some([key |-> key, value |-> container.keys[key]])
             ELSE ScanKeys(container, k + 1)

RECURSIVE ScanContainers(_, _)
ScanContainers(containers, c) ==
    IF c > Len(containers) THEN None
    ELSE IF containers[c].kind # "dict" THEN ScanContainers(containers, c + 1)
    ELSE LET hit == ScanKeys(containers[c], 1)
         IN  IF hit # None THEN hit ELSE ScanContainers(containers, c + 1)

\* the blob itself scanned before its sub-blocks
CandidateContainers_blob_first(team_stats) ==
    <<[kind |-> "dict", keys |-> team_stats.top],
      OrDict(team_stats.general), OrDict(team_stats.advanced)>>

\* (general, advanced, team_stats)
CandidateContainers(team_stats) ==
    <<OrDict(team_stats.general), OrDict(team_stats.advanced),
      [kind |-> "dict", keys |-> team_stats.top]>>

_map_winrate_from_team_stats(team_stats) ==
    IF team_stats.kind # "dict" THEN None
    ELSE ScanContainers(CandidateContainers(team_stats), 1)

-----------------------------------------------------------------------------
(* Inputs of the pure helpers *)

\* Match histories are built from these records.  Team ids are 1, 2 and 3.
\*   1 team 1 beats team 2, status "Finished", flat team ids
\*   2 team 2 beats team 1, finished by parsed_status only, nested team ids
\*   3 a finished draw
\*   4 a live match with a score on the board, not finished
\*   5 finished, team1_score missing
\*   6 finished, team2_score not an int
\*   7 finished, team 2's id missing
FormPool ==
    { Match(1, Some("Finished"), None, Some(1), None, Some(2), None, Score(2), Score(0)),
      Match(2, None, Some("FINISHED"), None, TeamSummary(Some(1), None),
            None, TeamSummary(Some(2), None), Score(0), Score(2)),
      Match(3, Some("finished"), None, Some(1), None, Some(2), None, Score(1), Score(1)),
      Match(4, Some("Live"), Some("live"), Some(1), None, Some(2), None, Score(2), Score(0)),
      Match(5, Some("finished"), None, Some(1), None, Some(2), None, None, Score(2)),
      Match(6, Some("finished"), None, Some(1), None, Some(2), None, Score(2), StrScore(0)),
      Match(7, Some("finished"), None, Some(1), None, None, TeamSummary(None, Some("b")),
            Score(2), Score(0)) }

\*   1 team 1 (listed first) beats team 2, finished
\*   2 team 2 (listed first, nested ids) beats team 1, finished
\*   3 team 1 against team 3, finished
\*   4 team 3 against team 2, finished: team 1 did not play
\*   5 team 1 against team 2, upcoming, no scores
\*   6 team 1 against team 2, live, team 1 ahead
\*   7 team 1 against a team whose id is missing
H2HPool ==
    { Match(1, Some("finished"), None, Some(1), None, Some(2), None, Score(2), Score(0)),
      Match(2, Some("finished"), None, None, TeamSummary(Some(2), None),
            None, TeamSummary(Some(1), None), Score(2), Score(1)),
      Match(3, Some("finished"), None, Some(1), None, Some(3), None, Score(2), Score(0)),
      Match(4, Some("finished"), None, Some(3), None, Some(2), None, Score(0), Score(2)),
      Match(5, Some("upcoming"), None, Some(1), None, Some(2), None, None, None),
      Match(6, Some("Live"), Some("live"), Some(1), None, Some(2), None, Score(1), Score(0)),
      Match(7, Some("finished"), None, Some(1), None, None, None, Score(2), Score(0)) }

Histories(pool) == UNION {[1..n -> pool] : n \in 0..MaxLen}

StatsLocs == {"top", "general", "advanced"} \X AliasSet

ValueAt(c) == CASE c = "top" -> "vT" [] c = "general" -> "vG" [] c = "advanced" -> "vA"

KeysOf(c, S, f) ==
    [a \in AliasSet |->
        IF <<c, a>> \in S
        THEN (IF f[<<c, a>>] = "val" THEN ValueAt(c) ELSE "empty")
        ELSE "absent"]

SubBlock(kind, c, S, f) ==
    [kind |-> kind, keys |-> IF kind = "dict" THEN KeysOf(c, S, f) ELSE NoKeys]

StatsDict(S, f, gk, ak) ==
    [kind |-> "dict", top |-> KeysOf("top", S, f),
     general |-> SubBlock(gk, "general", S, f),
     advanced |-> SubBlock(ak, "advanced", S, f)]

\* a payload that is not a dict (None, a list, a string)
StatsOther ==
    [kind |-> "other", top |-> NoKeys,
     general |-> [kind |-> "none", keys |-> NoKeys],
     advanced |-> [kind |-> "none", keys |-> NoKeys]]

SubKinds == {"dict", "none", "other"}

StatsBlobs ==
    {StatsOther} \cup
    UNION { { StatsDict(S, f, gk, ak) : f \in [S -> {"empty", "val"}], gk \in SubKinds, ak \in SubKinds }
            : S \in {T \in SUBSET StatsLocs : Cardinality(T) <= MaxKeys} }

-----------------------------------------------------------------------------
(* match_enriched is idle in the specifications of the pure helpers *)

TaskNames == {"t1_matches", "t2_matches", "t1_stats", "t2_stats"}

NoTask == [call |-> "none", status |-> "none", value |-> [kind |-> "none"], exc |-> ""]

EnrichIdle ==
    /\ md = None
    /\ tasks = [t \in TaskNames |-> NoTask]
    /\ outer = [state |-> "none", exc |-> ""]
    /\ returned = None
    /\ raised = None
    /\ statsCalls = {}

EnrichVars == <<md, tasks, outer, returned, raised, statsCalls>>

-----------------------------------------------------------------------------
(* Specification of _compute_form *)

InitForm ==
    /\ pc = "call"
    /\ args \in [team_id : {1, 2}, matches : Histories(FormPool), take : 0..MaxTake]
    /\ ret = None
    /\ EnrichIdle

CallComputeForm ==
    /\ pc = "call"
    /\ ret' = Some(_compute_form(args.team_id, args.matches, args.take))
    /\ pc' = "return"
    /\ UNCHANGED <<args, EnrichVars>>

NextForm == CallComputeForm

SpecForm == InitForm /\ [][NextForm]_vars

-----------------------------------------------------------------------------
(* Specification of _compute_h2h *)

InitH2H ==
    /\ pc = "call"
    /\ args \in [team1_id : {1, 2}, team2_id : {1, 2}, matches_team1 : Histories(H2HPool),
                 limit : 0..MaxLimit]
    /\ args.team1_id # args.team2_id
    /\ ret = None
    /\ EnrichIdle

CallComputeH2H ==
    /\ pc = "call"
    /\ ret' = Some([result  |-> _compute_h2h(args.team1_id, args.team2_id,
                                            args.matches_team1, args.limit),
                    scanned |-> H2HScan(args.team1_id, args.team2_id,
                                        args.matches_team1, args.limit, 1, <<>>).scanned])
    /\ pc' = "return"
    /\ UNCHANGED <<args, EnrichVars>>

NextH2H == CallComputeH2H

SpecH2H == InitH2H /\ [][NextH2H]_vars

-----------------------------------------------------------------------------
(* Specification of _map_winrate_from_team_stats *)

InitMap ==
    /\ pc = "call"
    /\ args \in [team_stats : StatsBlobs]
    /\ ret = None
    /\ EnrichIdle

CallMapWinrate ==
    /\ pc = "call"
    /\ ret' = Some(_map_winrate_from_team_stats(args.team_stats))
    /\ pc' = "return"
    /\ UNCHANGED <<args, EnrichVars>>

NextMap == CallMapWinrate

SpecMap == InitMap /\ [][NextMap]_vars

-----------------------------------------------------------------------------
(* match_enriched *)

\* the defaults of the handler's query parameters
form_last == 10
h2h_last == 10

_extract_odds(m) ==
    IF m.bet_updates = None THEN None
    ELSE Some([provider      |-> Val(m.bet_updates).provider,
               markets_count |-> Val(m.bet_updates).markets_count])

\* for key in ("lineups", "players", "rosters"): the first truthy one
_extract_lineups(m) ==
    IF m.lineups # None THEN Some([key |-> "lineups", value |-> Val(m.lineups)])
    ELSE IF m.players # None THEN Some([key |-> "players", value |-> Val(m.players)])
    ELSE IF m.rosters # None THEN Some([key |-> "rosters", value |-> Val(m.rosters)])
    ELSE None

\* the id read from the team summary alone
ResolveTeamId_nested_only(team, flat_id) == TeamGet(team, "id")

\* team.get("id") or md.get("teamN_id")
ResolveTeamId(team, flat_id) == OrInt(TeamGet(team, "id"), flat_id)

HTTPException(status_code, detail) == [status_code |-> status_code, detail |-> detail]

\* the message of the exception an upstream call raises
UpstreamError(call) == "upstream error in " \o call

PendingTask(call) ==
    [call |-> call, status |-> "pending", value |-> [kind |-> "none"], exc |-> ""]

\* cs2.get_team_stats(team_slug=...) if the slug is truthy, else asyncio.sleep(0, result=None)
StatsTask(slug) ==
    IF TruthyStr(slug) THEN PendingTask("get_team_stats") ELSE PendingTask("sleep")

\* asyncio.gather resolving as soon as one awaitable has a result
GatherOnDone_first_completed(out, ts, t) ==
    IF out.state # "pending" THEN out
    ELSE IF ts[t].status = "failed" THEN [state |-> "exception", exc |-> ts[t].exc]
    ELSE [state |-> "result", exc |-> ""]

\* asyncio.gather collecting exceptions as results (return_exceptions=True)
GatherOnDone_return_exceptions(out, ts, t) ==
    IF out.state # "pending" THEN out
    ELSE IF \A u \in DOMAIN ts : ts[u].status \in {"ok", "failed"}
         THEN [state |-> "result", exc |-> ""]
    ELSE out

\* asyncio.gather(*tasks): the callback run when awaitable t is done.  The first
\* exception resolves the outer future at once; otherwise it resolves with the
\* results once every awaitable is done.
GatherOnDone(out, ts, t) ==
    IF out.state # "pending" THEN out
    ELSE IF ts[t].status = "failed" THEN [state |-> "exception", exc |-> ts[t].exc]
    ELSE IF \A u \in DOMAIN ts : ts[u].status = "ok" THEN [state |-> "result", exc |-> ""]
    ELSE out

\* _map_winrate_from_team_stats(stats or {}) if isinstance(stats, dict) else None
MapWinrateField(stats) ==
    IF stats.kind = "dict" THEN _map_winrate_from_team_stats(stats) ELSE None

\* the dict the handler returns
EnrichedMatch(m, ts) ==
    LET team1_id == Val(ResolveTeamId(m.team1, m.team1_id))
        team2_id == Val(ResolveTeamId(m.team2, m.team2_id))
        t1_matches_list == _safe_list(ts["t1_matches"].value)
        t2_matches_list == _safe_list(ts["t2_matches"].value)
    IN  [match   |-> [id |-> m.id, team1 |-> m.team1, team2 |-> m.team2],
         odds    |-> _extract_odds(m),
         lineups |-> _extract_lineups(m),
         form    |-> [team1 |-> _compute_form(team1_id, t1_matches_list, form_last),
                      team2 |-> _compute_form(team2_id, t2_matches_list, form_last)],
         h2h     |-> _compute_h2h(team1_id, team2_id, t1_matches_list, h2h_last),
         map_winrate |-> [team1 |-> MapWinrateField(ts["t1_stats"].value),
                          team2 |-> MapWinrateField(ts["t2_stats"].value)]]

\* what the upstream provider may answer
NestedTeams(id) ==
    { None, TeamSummary(None, None), TeamSummary(None, Some("slug")),
      TeamSummary(Some(id), None), TeamSummary(Some(id), Some("")),
      TeamSummary(Some(id), Some("slug")) }

MdExtras ==
    { [bet_updates |-> None, lineups |-> None, players |-> None, rosters |-> None],
      [bet_updates |-> Some([provider |-> "bookie", markets_count |-> 3]),
       lineups |-> None, players |-> Some("five players"), rosters |-> Some("roster")] }

MatchDetails ==
    { [id |-> 100, team1 |-> n1, team1_id |-> f1, team2 |-> n2, team2_id |-> f2,
       bet_updates |-> x.bet_updates, lineups |-> x.lineups, players |-> x.players,
       rosters |-> x.rosters]
      : n1 \in NestedTeams(1), f1 \in {None, Some(1)},
        n2 \in NestedTeams(2), f2 \in {None, Some(2)}, x \in MdExtras }

HistoryPayloads ==
    { [kind |-> "list", items |-> <<>>],
      [kind |-> "list",
       items |-> <<Match(1, Some("finished"), None, Some(1), None, Some(2), None,
                         Score(2), Score(0))>>],
      [kind |-> "other", items |-> <<>>] }

StatsPayloads ==
    { StatsOther,
      StatsDict({}, <<>>, "none", "none"),
      StatsDict({<<"general", "maps">>}, [l \in {<<"general", "maps">>} |-> "val"],
                "dict", "none") }

Payloads(call) ==
    CASE call = "get_team_matches" -> HistoryPayloads
      [] call = "get_team_stats"   -> StatsPayloads
      [] call = "sleep"            -> {[kind |-> "none"]}

Init ==
    /\ pc = "start"
    /\ md = None
    /\ tasks = [t \in TaskNames |-> NoTask]
    /\ outer = [state |-> "none", exc |-> ""]
    /\ returned = None
    /\ raised = None
    /\ statsCalls = {}
    /\ args = None
    /\ ret = None

\* md = await cs2.get_match_details(slug=slug) raises
MatchDetailsFails ==
    /\ pc = "start"
    /\ raised' = Some(HTTPException(500, UpstreamError("get_match_details")))
    /\ pc' = "done"
    /\ UNCHANGED <<md, tasks, outer, returned, statsCalls, args, ret>>

\* the match record arrives and a team id is missing
MatchDetailsMissingIds ==
    /\ pc = "start"
    /\ \E m \in MatchDetails :
        /\ \/ ResolveTeamId(m.team1, m.team1_id) = None
           \/ ResolveTeamId(m.team2, m.team2_id) = None
        /\ md' = Some(m)
    /\ raised' = Some(HTTPException(500, "Missing team ids in match_details"))
    /\ pc' = "done"
    /\ UNCHANGED <<tasks, outer, returned, statsCalls, args, ret>>

\* the match record arrives, both ids resolve, the four awaitables are built
\* and handed to asyncio.gather
MatchDetailsDispatch ==
    /\ pc = "start"
    /\ \E m \in MatchDetails :
        /\ ResolveTeamId(m.team1, m.team1_id) # None
        /\ ResolveTeamId(m.team2, m.team2_id) # None
        /\ md' = Some(m)
        /\ tasks' = [t \in TaskNames |->
                       CASE t = "t1_matches" -> PendingTask("get_team_matches")
                         [] t = "t2_matches" -> PendingTask("get_team_matches")
                         [] t = "t1_stats"   -> StatsTask(TeamGet(m.team1, "slug"))
                         [] t = "t2_stats"   -> StatsTask(TeamGet(m.team2, "slug"))]
    /\ statsCalls' = {t \in {"t1_stats", "t2_stats"} : tasks'[t].call = "get_team_stats"}
    /\ outer' = [state |-> "pending", exc |-> ""]
    /\ pc' = "gather"
    /\ UNCHANGED <<returned, raised, args, ret>>

\* an awaitable completes with a result
TaskSucceeds(t) ==
    /\ tasks[t].status = "pending"
    /\ \E v \in Payloads(tasks[t].call) :
        tasks' = [tasks EXCEPT ![t].status = "ok", ![t].value = v]
    /\ outer' = GatherOnDone(outer, tasks', t)
    /\ UNCHANGED <<pc, md, returned, raised, statsCalls, args, ret>>

\* an upstream call raises
TaskFails(t) ==
    /\ tasks[t].status = "pending"
    /\ tasks[t].call # "sleep"
    /\ tasks' = [tasks EXCEPT ![t].status = "failed",
                              ![t].exc = UpstreamError(tasks[t].call \o " for " \o t)]
    /\ outer' = GatherOnDone(outer, tasks', t)
    /\ UNCHANGED <<pc, md, returned, raised, statsCalls, args, ret>>

\* await asyncio.gather(...) raises: except Exception turns it into a 500
GatherRaises ==
    /\ pc = "gather"
    /\ outer.state = "exception"
    /\ raised' = Some(HTTPException(500, outer.exc))
    /\ pc' = "done"
    /\ UNCHANGED <<md, tasks, outer, returned, statsCalls, args, ret>>

\* await asyncio.gather(...) returns the four results: the handler builds its answer
GatherReturns ==
    /\ pc = "gather"
    /\ outer.state = "result"
    /\ returned' = Some(EnrichedMatch(Val(md), tasks))
    /\ pc' = "done"
    /\ UNCHANGED <<md, tasks, outer, raised, statsCalls, args, ret>>

Next ==
    \/ MatchDetailsFails
    \/ MatchDetailsMissingIds
    \/ MatchDetailsDispatch
    \/ \E t \in TaskNames : TaskSucceeds(t)
    \/ \E t \in TaskNames : TaskFails(t)
    \/ GatherRaises
    \/ GatherReturns

Spec == Init /\ [][Next]_vars

-----------------------------------------------------------------------------
(* Properties of match_enriched, checked under Spec *)

MissingIds == HTTPException(500, "Missing team ids in match_details")

\* the match record carries an id for team n, nested or flat
Team1IdPresent(m) == (m.team1 # None /\ Val(m.team1).id # None) \/ m.team1_id # None
Team2IdPresent(m) == (m.team2 # None /\ Val(m.team2).id # None) \/ m.team2_id # None
BothIdsPresent == md # None /\ Team1IdPresent(Val(md)) /\ Team2IdPresent(Val(md))

\* the match record carries no usable slug for the team of stats task t
SlugOf(t) == IF t = "t1_stats" THEN TeamGet(Val(md).team1, "slug")
             ELSE TeamGet(Val(md).team2, "slug")
SlugAbsent(t) == SlugOf(t) = None \/ SlugOf(t) = Some("")

HistoriesOk == tasks["t1_matches"].status = "ok" /\ tasks["t2_matches"].status = "ok"
HistoryFailed == tasks["t1_matches"].status = "failed" \/ tasks["t2_matches"].status = "failed"
FailedTasks == {t \in TaskNames : tasks[t].status = "failed"}

WinrateOf(t) == IF t = "t1_stats" THEN Val(returned).map_winrate.team1
                ELSE Val(returned).map_winrate.team2

\* C1: when the match fetch and both history fetches succeed and both ids
\* resolve, a failed team-stats fetch does not abort the call: it returns an
\* EnrichedMatch whose map_winrate field of that team is null; and an error is
\* only ever raised because of the match fetch, a history fetch or a missing id.
C1_StatsFailureDegrades ==
    /\ (pc = "done" /\ BothIdsPresent /\ HistoriesOk) =>
          \A t \in {"t1_stats", "t2_stats"} :
              tasks[t].status = "failed" => (returned # None /\ WinrateOf(t) = None)
    /\ (pc = "done" /\ raised # None) =>
          (md = None \/ ~BothIdsPresent \/ HistoryFailed)

\* C2: once a team-history fetch has failed the call never returns an
\* EnrichedMatch, the gather it waits on can only raise, and the call ends in a
\* 500 carrying the message of an upstream failure, whatever the other three
\* awaitables did and in whatever order.
C2_MandatoryHistory ==
    HistoryFailed =>
        /\ returned = None
        /\ pc = "gather" => outer.state = "exception"
        /\ pc = "done" =>
              /\ raised # None
              /\ Val(raised).status_code = 500
              /\ Val(raised).detail \in {tasks[t].exc : t \in FailedTasks}
              /\ Val(raised) # MissingIds

\* team1's history failed while the other three awaitables succeeded
C2_Witness ==
    /\ pc = "done"
    /\ tasks["t1_matches"].status = "failed"
    /\ \A t \in TaskNames \ {"t1_matches"} : tasks[t].status = "ok"
    /\ tasks["t2_stats"].call = "get_team_stats"
    /\ raised = Some(HTTPException(500, tasks["t1_matches"].exc))

\* C3: when a team's slug is absent (ids resolved), get_team_stats is never
\* called for that team, the other team's stats call is issued iff its slug is
\* present, and with both histories fetched the call succeeds with that team's
\* map_winrate null.
C3_SkippedStats ==
    (md # None /\ BothIdsPresent) =>
        \A t \in {"t1_stats", "t2_stats"} :
            /\ SlugAbsent(t) <=> t \notin statsCalls
            /\ (SlugAbsent(t) /\ pc = "done" /\ HistoriesOk) =>
                  (returned # None /\ WinrateOf(t) = None)

EnrichedKeys == {"match", "odds", "lineups", "form", "h2h", "map_winrate"}

\* C4: a call ends with either a returned EnrichedMatch or one raised error,
\* never both and nothing before it is done; an EnrichedMatch is returned only
\* when the match record is there and all four awaitables of the gather have
\* completed with a result, and it has all its parts.
C4_AllOrNothing ==
    /\ returned = None \/ raised = None
    /\ (pc = "done") <=> (returned # None \/ raised # None)
    /\ returned # None =>
          /\ md # None
          /\ \A t \in TaskNames : tasks[t].status = "ok"
          /\ DOMAIN Val(returned) = EnrichedKeys
          /\ DOMAIN Val(returned).form = {"team1", "team2"}
          /\ DOMAIN Val(returned).map_winrate = {"team1", "team2"}

\* a result returned after two real history fetches, one real stats fetch and
\* one skipped substitute all completed
C4_Witness ==
    /\ pc = "done"
    /\ returned # None
    /\ tasks["t1_stats"].call = "sleep"
    /\ tasks["t2_stats"].call = "get_team_stats"
    /\ Val(returned).form.team1.wins = 1
    /\ Val(returned).map_winrate.team2 = Some([key |-> "maps", value |-> "vG"])

\* C5: once the match record is fetched, if neither the nested summary nor the
\* flat field gives an id for team1 or for team2 the call has failed with the
\* missing-ids error and returned nothing; if both ids are there that error is
\* never raised.
C5_UnresolvedIdFatal ==
    md # None =>
        IF BothIdsPresent
        THEN raised # Some(MissingIds)
        ELSE pc = "done" /\ raised = Some(MissingIds) /\ returned = None

\* team1 resolves from the flat field only, team2 has a slug but no id
C5_Witness ==
    /\ md # None
    /\ Val(md).team1 = None /\ Val(md).team1_id = Some(1)
    /\ Val(md).team2 = TeamSummary(None, Some("slug")) /\ Val(md).team2_id = None
    /\ raised = Some(MissingIds)

\* both ids resolve from the flat fields only and the call returns
C5_WitnessResolved ==
    /\ md # None
    /\ Val(md).team1 = None /\ Val(md).team2 = None
    /\ returned # None

-----------------------------------------------------------------------------
(* Properties of _compute_form, checked under SpecForm *)

\* status or parsed_status equals "finished", whatever the case
FinishedWord == {Some("finished"), Some("Finished"), Some("FINISHED")}
IsFinishedMatch(m) == m.status \in FinishedWord \/ m.parsed_status \in FinishedWord

HasTeam1Id(m) == m.team1_id # None \/ (m.team1 # None /\ Val(m.team1).id # None)
HasTeam2Id(m) == m.team2_id # None \/ (m.team2 # None /\ Val(m.team2).id # None)
IntScore(s) == s # None /\ Val(s).isInt

\* a winner can be inferred: both team ids, both integer scores, unequal
WinnerInferable(m) ==
    /\ HasTeam1Id(m) /\ HasTeam2Id(m)
    /\ IntScore(m.team1_score) /\ IntScore(m.team2_score)
    /\ Val(m.team1_score).v # Val(m.team2_score).v

\* the ids of the entries of h at the positions in S, in order
RECURSIVE IdsAt(_, _, _)
IdsAt(h, S, i) ==
    IF i > Len(h) THEN <<>>
    ELSE (IF i \in S THEN <<h[i].id>> ELSE <<>>) \o IdsAt(h, S, i + 1)

IdsOf(entries) == [k \in 1..Len(entries) |-> entries[k].id]

\* the positions of the first `take` finished matches of h
Considered(h, take) ==
    {i \in 1..Len(h) :
        IsFinishedMatch(h[i]) /\ Cardinality({j \in 1..i : IsFinishedMatch(h[j])}) <= take}

\* C6: _compute_form considers the first `take` finished matches in input
\* order; `recent` is the in-order subsequence of those with an inferable
\* winner, no other match is in it or counted, and
\* wins + losses = sample_size = len(recent) <= take.
C6_FormConsidersFirstTakeFinished ==
    pc = "return" =>
        LET h    == args.matches
            r    == Val(ret)
            kept == {i \in Considered(h, args.take) : WinnerInferable(h[i])}
        IN  /\ IdsOf(r.recent) = IdsAt(h, kept, 1)
            /\ r.wins + r.losses = r.sample_size
            /\ r.sample_size = Len(r.recent)
            /\ r.wins = Cardinality({k \in 1..Len(r.recent) : r.recent[k].win})
            /\ Len(r.recent) <= args.take

\* a live match first, a draw that uses up one of the two considered places,
\* a win that is kept, and a finished match beyond the budget
C6_Witness ==
    /\ pc = "return"
    /\ args.take = 2 /\ args.team_id = 1
    /\ IdsOf(args.matches) = <<4, 3, 1, 2>>
    /\ IdsOf(Val(ret).recent) = <<1>>
    /\ Val(ret).wins = 1 /\ Val(ret).losses = 0

\* the length of the run of outcomes equal to the first one, from the head
HeadRun(o) ==
    CHOOSE k \in 1..Len(o) :
        /\ \A j \in 1..k : o[j] = o[1]
        /\ k = Len(o) \/ o[k + 1] # o[1]

\* C7: streak is 0 iff `recent` is empty; otherwise it is +n after n leading
\* wins and -n after n leading losses, n the length of the run at the head of
\* the list; later outcomes never change it, and |streak| <= sample_size.
C7_StreakIsHeadRun ==
    pc = "return" =>
        LET r == Val(ret)
            o == [k \in 1..Len(r.recent) |-> r.recent[k].win]
        IN  /\ (r.streak = 0) <=> (o = <<>>)
            /\ o # <<>> => r.streak = (IF o[1] THEN HeadRun(o) ELSE 0 - HeadRun(o))
            /\ r.streak <= r.sample_size /\ 0 - r.streak <= r.sample_size

\* win, win, loss, win gives 2
C7_Witness ==
    /\ pc = "return"
    /\ [k \in 1..Len(Val(ret).recent) |-> Val(ret).recent[k].win] = <<TRUE, TRUE, FALSE, TRUE>>
    /\ Val(ret).streak = 2

\* loss, loss, win gives -2
C7_WitnessLosses ==
    /\ pc = "return"
    /\ [k \in 1..Len(Val(ret).recent) |-> Val(ret).recent[k].win] = <<FALSE, FALSE, TRUE>>
    /\ Val(ret).streak = 0 - 2

-----------------------------------------------------------------------------
(* Properties of _compute_h2h, checked under SpecH2H *)

\* the opponent of team a in m is team b
Qualifies(m, a, b) == _opponent_id(m, a) = Some(b)

\* the positions of the first `limit` qualifying matches of h
FirstQualifying(h, a, b, limit) ==
    {i \in 1..Len(h) :
        Qualifies(h[i], a, b) /\ Cardinality({j \in 1..i : Qualifies(h[j], a, b)}) <= limit}

\* C8: for every limit >= 0, `matches` has at most `limit` entries, it is the
\* first qualifying matches in scan order, and the scan ends at the entry where
\* the limit-th qualifying match is found.
C8_H2HCapAndEarlyStop ==
    pc = "return" =>
        LET h     == args.matches_team1
            r     == Val(ret).result
            first == FirstQualifying(h, args.team1_id, args.team2_id, args.limit)
        IN  /\ Len(r.matches) <= args.limit
            /\ r.sample_size <= args.limit
            /\ IdsOf(r.matches) = IdsAt(h, first, 1)
            /\ (args.limit >= 1 /\ Cardinality(first) = args.limit) =>
                  \E i \in first : Val(ret).scanned = i /\ \A j \in first : j <= i

\* the cap and the early stop for a limit of at least 1
H2HCapPositiveLimit ==
    (pc = "return" /\ args.limit >= 1) =>
        LET h     == args.matches_team1
            r     == Val(ret).result
            first == FirstQualifying(h, args.team1_id, args.team2_id, args.limit)
        IN  /\ Len(r.matches) <= args.limit
            /\ r.sample_size <= args.limit
            /\ IdsOf(r.matches) = IdsAt(h, first, 1)
            /\ Cardinality(first) = args.limit =>
                  \E i \in first : Val(ret).scanned = i /\ \A j \in first : j <= i

\* C10: the finished-match predicate is applied by _compute_h2h: every match in
\* `matches` is a finished match of the history, and the result is the one the
\* finished matches alone give (stated for a limit of at least 1).
C10_H2HOnlyFinished ==
    (pc = "return" /\ args.limit >= 1) =>
        LET h == args.matches_team1
            r == Val(ret).result
        IN  /\ \A k \in 1..Len(r.matches) :
                  \E i \in 1..Len(h) : h[i].id = r.matches[k].id /\ IsFinishedMatch(h[i])
            /\ r = _compute_h2h(args.team1_id, args.team2_id,
                                SelectSeq(h, IsFinishedMatch), args.limit)

-----------------------------------------------------------------------------
(* Properties of _map_winrate_from_team_stats, checked under SpecMap *)

ContainerOf(b, c) ==
    CASE c = "top"      -> [kind |-> "dict", keys |-> b.top]
      [] c = "general"  -> b.general
      [] c = "advanced" -> b.advanced

\* container c of blob b is a dict holding a non-empty value under alias a
IsHit(b, c, a) ==
    /\ ContainerOf(b, c).kind = "dict"
    /\ ContainerOf(b, c).keys[a] \notin {"absent", "empty"}

IndexIn(seq, x) == CHOOSE k \in 1..Len(seq) : seq[k] = x

\* (c1, a1) comes before (c2, a2) when containers are scanned in `order`
Before(order, c1, a1, c2, a2) ==
    \/ IndexIn(order, c1) < IndexIn(order, c2)
    \/ c1 = c2 /\ IndexIn(Aliases, a1) < IndexIn(Aliases, a2)

\* the first non-empty (container, alias) hit in scan order, wrapped under its
\* alias; null for a blob that is no dict or has no hit
FirstHit(b, order) ==
    LET hits == {l \in StatsLocs : IsHit(b, l[1], l[2])}
    IN  IF b.kind # "dict" \/ hits = {} THEN None
        ELSE LET l == CHOOSE x \in hits :
                        \A y \in hits \ {x} : Before(order, x[1], x[2], y[1], y[2])
             IN  Some([key |-> l[2], value |-> ContainerOf(b, l[1]).keys[l[2]]])

\* C9 as stated: the blob itself is scanned first, then general_stats, then
\* advanced_stats
C9_ScanBlobFirst ==
    pc = "return" =>
        Val(ret) = FirstHit(args.team_stats, <<"top", "general", "advanced">>)

\* C9: the result is the first non-empty (container, alias) hit with the
\* containers scanned in the order general_stats, advanced_stats, the blob
\* itself, and the aliases in the order maps, map_stats, map_pool, mapWinrate,
\* map_winrate, map_stats_data; it is wrapped under its alias, and null when
\* the blob is no dict or nothing is found.
C9_ScanSubBlocksFirst ==
    pc = "return" =>
        Val(ret) = FirstHit(args.team_stats, <<"general", "advanced", "top">>)

\* the blob has maps at top level and map_pool under general_stats: the
\* sub-block wins
C9_Witness ==
    /\ pc = "return"
    /\ args.team_stats.kind = "dict"
    /\ args.team_stats.top["maps"] = "vT"
    /\ args.team_stats.general.kind = "dict"
    /\ args.team_stats.general.keys["map_pool"] = "vG"
    /\ Val(ret) = Some([key |-> "map_pool", value |-> "vG"])

=============================================================================
